---- MODULE Spec2Model ----
(***************************************************************************)
(* The sequential analysis queue controller of the slide viewer            *)
(* (src/components/SlideViewer.tsx).                                       *)
(*                                                                         *)
(* The viewer is a React function component.  Every handler is a closure   *)
(* over the state of the render that created it:                           *)
(*   - a click handler runs in the latest render, so it reads the current  *)
(*     slides and queue;                                                   *)
(*   - the queue effect (processQueue) runs after every commit in which    *)
(*     `slides` or `queue` changed; when it decides to analyze the head    *)
(*     it sleeps 1000 ms and then calls the triggerAnalysis of ITS render, *)
(*     which still reads the slides of that render;                        *)
(*   - the continuation of triggerAnalysis after the Analysis Client call  *)
(*     writes slidesCopyLoading, the copy it made when it started.         *)
(* handleSave replaces the whole slide array by the array it is given.     *)
(*                                                                         *)
(* The displayed slide (currentIndex) and the prompt editor flag are view  *)
(* state that the user sets freely at any time (a thumbnail click, the     *)
(* Edit Prompt button) and that no step of the queue controller reads, so  *)
(* the slide a click acts on is an input of the click's action.  The text  *)
(* of the prompt editor (customPromptInput) is an input in the same way;   *)
(* SpecPrompt is the specification in which both are state.                *)
(*                                                                         *)
(* handleSave also debounces the write to the Persistence Gateway: it      *)
(* clears the save timeout it armed last and arms a new one (1000 ms); a   *)
(* timeout that fires calls savePresentation on the snapshot it was armed  *)
(* with.  No step of the controller reads the timeouts, the gateway or the *)
(* prompt text, so the module has several specifications over the same     *)
(* handlers: Spec, SpecDeep, SpecLive and SpecQueue (the queue             *)
(* controller), SpecRecord (prompts and empty responses), SpecSave         *)
(* (timeouts firing and the gateway answering), SpecRace (the queue        *)
(* effect of a settled call's commit running late) and SpecPrompt (the     *)
(* displayed slide and the prompt editor as state).                        *)
(*                                                                         *)
(* The viewer is mounted by the application shell (App, src/unnamed/       *)
(* part_000) once an uploaded PDF has been ingested and written, or a      *)
(* stored presentation is opened.  SpecUpload is the shell up to that      *)
(* point.                                                                  *)
(***************************************************************************)
EXTENDS Integers, Sequences, FiniteSets, TLC

\* ----------------------------------------------------------------- bounds
MaxCalls    == 2    \* Analysis Client calls started in one behaviour of Spec
DeepCalls   == 3    \* the same, in one behaviour of SpecDeep
RecordCalls == 2    \* the same, in one behaviour of SpecRecord
SaveCalls   == 2    \* the same, in one behaviour of SpecSave
MaxDelays   == 1    \* processQueue invocations sleeping at the same time
MaxWrites   == 2    \* savePresentation calls in flight at the same time
QueueCalls  == 2    \* the same, in one behaviour of SpecQueue
RaceCalls   == 2    \* Analysis Client calls started in one behaviour of SpecRace
MaxUploads  == 3    \* presentations created in one behaviour of SpecUpload

\* The presentation: three slides, as in the scenario of the specification.
Ids == {1, 2, 3}

VARIABLES
    slides,          \* presentation.slides; slide i of the ingestion is slides[i]
    queue,           \* the Queue (useState<string[]>)
    processingRef,   \* the in-flight guard set (useRef<Set<string>>)
    delays,          \* processQueue invocations inside their 1000 ms sleep, oldest first
    calls,           \* analyzeSlideImage calls started and not yet settled, oldest first
    budget,          \* Analysis Client calls the behaviour may still start
    now,             \* Date.now(), counted in settled Analysis Client calls
    timerRef,        \* timerRef.current: the timeout handleSave created last (0: null)
    timers,          \* the armed save timeouts: [id, snap]
    writes,          \* savePresentation calls started and not finished, oldest first
    stored,          \* the slides of the document the Persistence Gateway holds
    isSaving,        \* the Saving... indicator (useState<boolean>)
    lastModified,    \* presentation.lastModified (0: as ingested, before the viewer)
    requested,       \* history: ids ever enqueued or triggered by Try Again or a regenerate
    disturbed,       \* history: ids ever dequeued, cleared, enqueued a second time or
                     \* triggered by Try Again or a regenerate
    writeFailed,     \* history: some savePresentation call has rejected
    deferred,        \* the queue effect of the last commit has not run yet
    appState,        \* App: 'LANDING' | 'DASHBOARD' | 'UPLOAD' | 'VIEWER'
    user,            \* App: a user is signed in (user !== null)
    error,           \* App: the user-visible error message ("null": none)
    isLoading,       \* App: the upload spinner (useState<boolean>)
    currentPresentation, \* App: the presentation handed to the viewer (0: null)
    upload,          \* the await handleFileUpload is suspended at ("none": not running)
    login,           \* handleLoginClick is suspended at its await
    created,         \* presentation documents the Persistence Gateway holds
    currentIndex,    \* the displayed slide (useState, counted from 1 here)
    isEditingPrompt, \* the prompt editor overlay is open (useState<boolean>)
    customPromptInput, \* the text of the prompt editor (useState<string>)
    editedFor        \* history: the slide displayed when customPromptInput was
                     \* last loaded or typed (0: never)

core == <<slides, queue, processingRef, delays, calls, budget, now>>
save == <<timerRef, timers, writes, stored, isSaving, lastModified>>
hist == <<requested, disturbed, writeFailed>>
app  == <<appState, user, error, isLoading, currentPresentation, upload, login, created>>
editor == <<currentIndex, isEditingPrompt, customPromptInput, editedFor>>
vars == <<core, save, hist, deferred, editor, app, editor>>

\* -------------------------------------------------------------- data model
\* The customPrompt the ingestion gives every slide.
IngestPrompt == "ingest"

\* The instruction triggerAnalysis falls back to.
DefaultInstruction == "default"

\* currentUser.id
CurrentUser == "user"

\* analyzedBy of a slide that was never analyzed (the field is absent).
Unattributed == [userId |-> "undefined", timestamp |-> 0]

\* Slide i as created by the ingestion (processPdf): id `slide-${i}-...`,
\* pageNumber i, status IDLE, no explanation.
NewSlide(i) == [id |-> i, pageNumber |-> i,
                status |-> "IDLE", explanation |-> "null",
                customPrompt |-> IngestPrompt, analyzedBy |-> Unattributed]

\* What the Analysis Client does with a call: it resolves with a text or
\* rejects.  Every resolution takes the success branch of triggerAnalysis.
Outcomes == {"text", "reject"}

\* The same, telling apart a resolution whose text is the empty string.
Responses == {"text", "", "reject"}

\* customPromptInput, the text of the prompt editor, when a regenerate reads
\* it: empty (its initial value) or a text the user typed.
PromptInputs == {"", "X"}

\* slides.some(s => s.status === 'LOADING')
IsAnyLoading(sl) == \E i \in Ids : sl[i].status = "LOADING"

\* A membership test that looks at the head only.
IncludesHeadOnly(q, id) == Len(q) > 0 /\ q[1] = id

\* queue.includes(slideId)
Includes(q, id) == \E k \in 1..Len(q) : q[k] = id

\* processingRef.current.has(slideId)
GuardHeld(pr, id) == id \in pr

\* A trash button that always drops the head of the queue.
RemoveHead(q, id) == IF Len(q) > 0 THEN Tail(q) ELSE q

\* prev.filter(id => id !== slideId)
RemoveFromQueue(q, id) == SelectSeq(q, LAMBDA x : x # id)

\* An enqueue that puts the slide at the front.
AddToQueueFront(q, id) == IF ~Includes(q, id) THEN <<id>> \o q ELSE q

\* if (!queue.includes(slideId)) setQueue(prev => [...prev, slideId])
AddToQueue(q, id) == IF ~Includes(q, id) THEN Append(q, id) ELSE q

\* The sidebar renders "Add to priority queue" for a slide only when it is
\* not SUCCESS, not LOADING and not queued.
AddButtonShown(sl, q, id) ==
    /\ sl[id].status # "SUCCESS"
    /\ sl[id].status # "LOADING"
    /\ ~Includes(q, id)

\* The header's Regenerate button is disabled while the displayed slide is LOADING.
RegenerateEnabled(sl, id) == sl[id].status # "LOADING"

\* slides.findIndex(s => s.id === slideId); every id a handler is given is
\* the id of a slide of the presentation.
FindIndex(sl, id) == CHOOSE i \in DOMAIN sl : sl[i].id = id

\* A copy that puts the updated slide at the front of the array.
CopyLoadingAtFront(sl, id) ==
    [sl EXCEPT ![1] = [sl[FindIndex(sl, id)] EXCEPT !.status = "LOADING"]]

\* slidesCopyLoading: the slides of the render with slideId set to LOADING
\* ({ ...slide, status: 'LOADING' } at slideIndex).
CopyLoading(sl, id) == [sl EXCEPT ![FindIndex(sl, id)].status = "LOADING"]

\* customPrompt || slide.customPrompt || "Explain this slide in detail. ..."
\* (an absent argument and an empty string are both falsy)
PromptToUse(override, slide) ==
    IF override # "" THEN override
    ELSE IF slide.customPrompt # "" THEN slide.customPrompt
    ELSE DefaultInstruction

\* An attribution that keeps the time of the first analysis.
AttributionAtEpoch(t) == [userId |-> CurrentUser, timestamp |-> 1]

\* analyzedBy: { userId: currentUser.id, ..., timestamp: Date.now() }
Attribution(t) == [userId |-> CurrentUser, timestamp |-> t]

\* slidesCopySuccess / slidesCopyError: the copy written when the call settles
\* at time t, the call having been made with `prompt`.
CopySettled(snap, id, outcome, prompt, t) ==
    LET slideIndex == FindIndex(snap, id) IN
    IF outcome = "reject"
    THEN [snap EXCEPT ![slideIndex].status = "ERROR"]
    ELSE [snap EXCEPT ![slideIndex].status = "SUCCESS",
                      ![slideIndex].explanation = outcome,
                      ![slideIndex].customPrompt = prompt,
                      ![slideIndex].analyzedBy = Attribution(t)]

\* A guard that is released only when the call resolved.
GuardAfterSuccess(pr, id, outcome) == IF outcome = "reject" THEN pr ELSE pr \ {id}

\* finally { processingRef.current.delete(slideId) }
GuardAfter(pr, id, outcome) == pr \ {id}

\* Whether the continuation of triggerAnalysis calls trackAnalysisUsage: the
\* success branch ends with the call, the catch branch has none.  The report
\* is not awaited and catches its own failure, so no state of the viewer
\* depends on how it ends.
TracksUsage(outcome) == outcome # "reject"

\* A candidate taken from the slide list instead of the queue.
FirstSlide(q) == 1

\* A candidate taken from the tail of the queue.
QueueLast(q) == q[Len(q)]

\* const id = queue[0]
QueueHead(q) == q[1]

\* A head that is popped whenever it is not IDLE.
NeedsAnalysisIdleOnly(s) == s.status = "IDLE"

\* s && s.status !== 'SUCCESS'
NeedsAnalysis(s) == s.status # "SUCCESS"

\* The queue effect, run on the committed slides and queue.  It returns the
\* queue it leaves and the sleeping invocation it adds (none, or one).  The
\* pop commits a new queue, so the effect runs again on the shorter queue.
RECURSIVE ProcessQueue(_, _, _)
ProcessQueue(sl, q, pr) ==
    IF IsAnyLoading(sl) THEN [queue |-> q, wait |-> <<>>]
    ELSE IF Len(q) > 0
    THEN LET id == QueueHead(q) IN
         IF NeedsAnalysis(sl[id])
         THEN IF ~GuardHeld(pr, id)
              THEN [queue |-> q, wait |-> <<[id |-> id, snap |-> sl]>>]
              ELSE [queue |-> q, wait |-> <<>>]
         ELSE ProcessQueue(sl, Tail(q), pr)
    ELSE [queue |-> q, wait |-> <<>>]

\* A commit of new slides and/or a new queue, followed by the queue effect.
\* `d` are the sleeping invocations the handler itself leaves.
Commit(sl, q, pr, d) ==
    LET r == ProcessQueue(sl, q, pr) IN
    /\ Len(d) + Len(r.wait) <= MaxDelays
    /\ slides' = sl
    /\ queue' = r.queue
    /\ delays' = d \o r.wait

\* A handleSave that arms a timeout without clearing the one before.
KeepTimeout(ts, ref) == ts

\* if (timerRef.current) clearTimeout(timerRef.current)
ClearTimeout(ts, ref) == {t \in ts : t.id # ref}

\* A handleSave that leaves lastModified as the presentation had it.
LastModifiedKept(prev, t) == prev

\* lastModified: Date.now(), read at time t by a handleSave of a presentation
\* whose lastModified was prev.
LastModified(prev, t) == t

\* handleSave without its slides: updatedPresentation gets lastModified at
\* time t, the timeout armed last is cleared, the saving indicator is set
\* and a timeout is armed for updatedPresentation, whose slides are `sl`.
Debounce(sl, t) ==
    /\ lastModified' = LastModified(lastModified, t)
    /\ timers' = ClearTimeout(timers, timerRef)
                    \cup {[id |-> timerRef + 1, snap |-> sl,
                           lastModified |-> LastModified(lastModified, t)]}
    /\ timerRef' = timerRef + 1
    /\ isSaving' = TRUE
    /\ UNCHANGED <<writes, stored>>

\* handleSave(updatedSlides) at time t: commit the slides, then debounce the
\* write.
HandleSave(sl, q, pr, d, t) ==
    /\ Commit(sl, q, pr, d)
    /\ Debounce(sl, t)

\* triggerAnalysis(slideId, customPrompt) up to its await, called from a
\* render whose slides are `sl`, with the guard set `pr` and sleeping
\* invocations `d`.  The call record keeps, for the statements about it, the
\* status the slide had (was) and whether a snapshot with the slide LOADING
\* was handed to savePresentation since (saved).
TriggerAnalysis(id, override, sl, pr, d, origin) ==
    IF GuardHeld(pr, id)
    THEN /\ processingRef' = pr
         /\ delays' = d
         /\ UNCHANGED <<slides, queue, calls, budget, save>>
    ELSE /\ budget > 0
         /\ budget' = budget - 1
         /\ processingRef' = pr \cup {id}
         /\ calls' = Append(calls, [id |-> id, snap |-> CopyLoading(sl, id),
                                    origin |-> origin,
                                    override |-> override,
                                    prompt |-> PromptToUse(override, sl[id]),
                                    was |-> sl[id].status,
                                    saved |-> FALSE])
         /\ HandleSave(CopyLoading(sl, id), queue, pr \cup {id}, d, now)

\* ------------------------------------------------------------------ actions
\* The viewer as mounted on a freshly ingested presentation.
Viewer(b) ==
    /\ slides = [i \in Ids |-> NewSlide(i)]
    /\ queue = <<>>
    /\ processingRef = {}
    /\ delays = <<>>
    /\ calls = <<>>
    /\ budget = b
    /\ now = 1
    /\ timerRef = 0
    /\ timers = {}
    /\ writes = <<>>
    /\ stored = [i \in Ids |-> NewSlide(i)]
    /\ isSaving = FALSE
    /\ lastModified = 0
    /\ requested = {}
    /\ disturbed = {}
    /\ writeFailed = FALSE
    /\ deferred = FALSE
    /\ currentIndex = 1
    /\ isEditingPrompt = FALSE
    /\ customPromptInput = ""
    /\ editedFor = 0

\* The shell showing the viewer: a signed-in user, the presentation stored.
Start(b) ==
    /\ Viewer(b)
    /\ appState = "VIEWER"
    /\ user = TRUE
    /\ error = "null"
    /\ isLoading = FALSE
    /\ currentPresentation = 1
    /\ upload = "none"
    /\ login = FALSE
    /\ created = 1

Init == Start(MaxCalls)

\* enqueue: the sidebar's Add to Queue button of slide id.
Enqueue(id) ==
    /\ AddButtonShown(slides, queue, id)
    /\ Commit(slides, AddToQueue(queue, id), processingRef, delays)
    /\ requested' = requested \cup {id}
    /\ disturbed' = disturbed \cup ({id} \cap requested)
    /\ UNCHANGED <<processingRef, calls, budget, now, save, writeFailed, deferred, app, editor>>

\* A trash button that also drops the calls in flight for the slide.
DequeueAborting(id) ==
    /\ Includes(queue, id)
    /\ Commit(slides, RemoveFromQueue(queue, id), processingRef, delays)
    /\ calls' = SelectSeq(calls, LAMBDA c : c.id # id)
    /\ disturbed' = disturbed \cup {id}
    /\ UNCHANGED <<processingRef, budget, now, save, requested, writeFailed, deferred, app, editor>>

\* dequeue: the trash button of a queue entry.
Dequeue(id) ==
    /\ Includes(queue, id)
    /\ Commit(slides, RemoveFromQueue(queue, id), processingRef, delays)
    /\ disturbed' = disturbed \cup {id}
    /\ UNCHANGED <<processingRef, calls, budget, now, save, requested, writeFailed,
                   deferred, app, editor>>

\* Clear Queue, rendered while the queue is not empty: setQueue([]).
ClearQueue ==
    /\ Len(queue) > 0
    /\ Commit(slides, <<>>, processingRef, delays)
    /\ disturbed' = disturbed \cup {queue[k] : k \in 1..Len(queue)}
    /\ UNCHANGED <<processingRef, calls, budget, now, save, requested, writeFailed,
                   deferred, app, editor>>

\* Try Again, rendered in place of the explanation while the displayed slide
\* is ERROR: triggerAnalysis(currentSlide.id).
TryAgain(id) ==
    /\ slides[id].status = "ERROR"
    /\ TriggerAnalysis(id, "", slides, processingRef, delays, "tryAgain")
    /\ requested' = requested \cup {id}
    /\ disturbed' = disturbed \cup {id}
    /\ UNCHANGED <<now, writeFailed, deferred, app, editor>>

\* handleRegenerate with `input` in the prompt editor: drop the guard of the
\* displayed slide, then trigger it with customPromptInput ||
\* currentSlide.customPrompt.
HandleRegenerate(id, input, origin) ==
    /\ TriggerAnalysis(id, IF input # "" THEN input ELSE slides[id].customPrompt,
                       slides, processingRef \ {id}, delays, origin)
    /\ isEditingPrompt' = FALSE
    /\ requested' = requested \cup {id}
    /\ disturbed' = disturbed \cup {id}
    /\ UNCHANGED <<now, writeFailed, deferred, app, currentIndex, customPromptInput,
                   editedFor>>

\* The header's Regenerate button on the displayed slide.
RegenerateButton(id, input) ==
    /\ RegenerateEnabled(slides, id)
    /\ HandleRegenerate(id, input, "regenerate")

\* The prompt editor's Analyze Slide button; the editor opens on any
\* displayed slide and the button is never disabled.
AnalyzeSlideButton(id, input) ==
    HandleRegenerate(id, input, "analyzeSlide")

\* The oldest sleeping processQueue wakes up and calls the triggerAnalysis
\* of its own render.
Admit ==
    /\ Len(delays) > 0
    /\ TriggerAnalysis(Head(delays).id, "", Head(delays).snap, processingRef,
                       Tail(delays), "queue")
    /\ UNCHANGED <<now, hist, deferred, app, editor>>

\* The Analysis Client settles call k: the rest of triggerAnalysis runs.
\* Date.now() reads later than at any step before: a call takes longer than
\* the resolution of the clock.
Settle(k, outcome) ==
    /\ k \in DOMAIN calls
    /\ calls' = SubSeq(calls, 1, k - 1) \o SubSeq(calls, k + 1, Len(calls))
    /\ now' = now + 1
    /\ processingRef' = GuardAfter(processingRef, calls[k].id, outcome)
    /\ HandleSave(CopySettled(calls[k].snap, calls[k].id, outcome,
                              calls[k].prompt, now + 1),
                  queue, GuardAfter(processingRef, calls[k].id, outcome), delays,
                  now + 1)
    /\ UNCHANGED <<budget, hist, deferred, app, editor>>

\* An armed save timeout fires: savePresentation(updatedPresentation) starts.
TimerFires(t) ==
    /\ t \in timers
    /\ Len(writes) < MaxWrites
    /\ timers' = timers \ {t}
    /\ writes' = Append(writes, t.snap)
    /\ calls' = [k \in DOMAIN calls |->
                    IF t.snap[calls[k].id].status = "LOADING"
                    THEN [calls[k] EXCEPT !.saved = TRUE]
                    ELSE calls[k]]
    /\ UNCHANGED <<slides, queue, processingRef, delays, budget, now,
                   timerRef, stored, isSaving, lastModified, hist, deferred, app,
                   editor>>

\* A gateway whose failed write puts the stored slides back on screen.
WriteDoneRollback(k, ok) ==
    /\ k \in DOMAIN writes
    /\ writes' = SubSeq(writes, 1, k - 1) \o SubSeq(writes, k + 1, Len(writes))
    /\ stored' = IF ok THEN writes[k] ELSE stored
    /\ slides' = IF ok THEN slides ELSE stored
    /\ isSaving' = FALSE
    /\ writeFailed' = (writeFailed \/ ~ok)
    /\ UNCHANGED <<queue, processingRef, delays, calls, budget, now,
                   timerRef, timers, lastModified, requested, disturbed, deferred,
                   app, editor>>

\* savePresentation call k finishes: setDoc has replaced the stored document,
\* or the call rejected; finally setIsSaving(false).
WriteDone(k, ok) ==
    /\ k \in DOMAIN writes
    /\ writes' = SubSeq(writes, 1, k - 1) \o SubSeq(writes, k + 1, Len(writes))
    /\ stored' = IF ok THEN writes[k] ELSE stored
    /\ isSaving' = FALSE
    /\ writeFailed' = (writeFailed \/ ~ok)
    /\ UNCHANGED <<core, timerRef, timers, lastModified, requested, disturbed,
                   deferred, app, editor>>

\* The queue controller.  Its steps never read the save timeouts, the
\* gateway or the prompt text, so here the prompt editor is left empty and
\* the save timeouts stay armed.
Next ==
    \/ \E id \in Ids : Enqueue(id)
    \/ \E id \in Ids : Dequeue(id)
    \/ ClearQueue
    \/ \E id \in Ids : TryAgain(id)
    \/ \E id \in Ids : RegenerateButton(id, "")
    \/ \E id \in Ids : AnalyzeSlideButton(id, "")
    \/ Admit
    \/ \E k \in DOMAIN calls, o \in Outcomes : Settle(k, o)

Spec == Init /\ [][Next]_vars

\* The same viewer with room for one more Analysis Client call.
InitDeep == Start(DeepCalls)

SpecDeep == InitDeep /\ [][Next]_vars

\* The viewer of a user who leaves the analyses to the queue: slides are
\* queued and taken off the queue, and a failed slide is tried again.
InitQueue == Start(QueueCalls)

NextQueue ==
    \/ \E id \in Ids : Enqueue(id)
    \/ \E id \in Ids : Dequeue(id)
    \/ ClearQueue
    \/ \E id \in Ids : TryAgain(id)
    \/ Admit
    \/ \E k \in DOMAIN calls, o \in Outcomes : Settle(k, o)

SpecQueue == InitQueue /\ [][NextQueue]_vars

\* The queue controller where every started Analysis Client call settles and
\* every sleeping processQueue wakes up.
SpecLive ==
    /\ Init
    /\ [][Next]_vars
    /\ WF_vars(Admit)
    /\ WF_vars(\E k \in DOMAIN calls, o \in Outcomes : Settle(k, o))

\* The viewer with the prompt editor in use and with Analysis Client
\* responses whose text is empty; slides are queued and never taken back.
InitRecord == Start(RecordCalls)

NextRecord ==
    \/ \E id \in Ids : Enqueue(id)
    \/ \E id \in Ids : TryAgain(id)
    \/ \E id \in Ids, input \in PromptInputs : RegenerateButton(id, input)
    \/ \E id \in Ids, input \in PromptInputs : AnalyzeSlideButton(id, input)
    \/ Admit
    \/ \E k \in DOMAIN calls, o \in Responses : Settle(k, o)

SpecRecord == InitRecord /\ [][NextRecord]_vars

\* The viewer with its save timeouts firing and the Persistence Gateway
\* answering.  handleSave is the same whoever called triggerAnalysis; here
\* the analyses are started from the slide panel and the queue stays empty.
InitSave == Start(SaveCalls)

NextSave ==
    \/ \E id \in Ids : TryAgain(id)
    \/ \E id \in Ids : RegenerateButton(id, "")
    \/ \E id \in Ids : AnalyzeSlideButton(id, "")
    \/ \E k \in DOMAIN calls, o \in Outcomes : Settle(k, o)
    \/ \E t \in timers : TimerFires(t)
    \/ \E k \in DOMAIN writes, ok \in BOOLEAN : WriteDone(k, ok)

SpecSave == InitSave /\ [][NextSave]_vars

\* ----------------------------------------------------- the deferred effect
\* The queue effect is a passive effect.  After a commit made by a click it
\* runs before the click returns; after a commit made by the continuation of
\* an await it runs later, and at the latest when the next render starts.
\* A click handled in between reads the committed render and queues its
\* state update first; the effect of the committed render then decides on
\* the queue of its own render, and its pop, prev => prev.slice(1), is
\* applied to what the click's update left.  The commit of a settled call is
\* the only such commit the effect does not leave at once: the commit of an
\* admitted call has a LOADING slide.

\* One run of the queue effect on the slides and queue of a render: what it
\* decides to do.
EffectOf(sl, q, pr) ==
    IF IsAnyLoading(sl) THEN "none"
    ELSE IF Len(q) > 0
    THEN IF NeedsAnalysis(sl[QueueHead(q)])
         THEN IF ~GuardHeld(pr, QueueHead(q)) THEN "wait" ELSE "none"
         ELSE "pop"
    ELSE "none"

\* prev.slice(1)
Slice1(q) == IF Len(q) > 0 THEN Tail(q) ELSE q

\* The render after a click that was handled before the deferred effect ran:
\* `q` is what the click's update makes of the queue; the deferred effect
\* decided on the committed slides and queue.
CommitAfterClick(q) ==
    LET e == EffectOf(slides, queue, processingRef) IN
    /\ deferred
    /\ deferred' = FALSE
    /\ Commit(slides,
              IF e = "pop" THEN Slice1(q) ELSE q,
              processingRef,
              IF e = "wait"
              THEN Append(delays, [id |-> QueueHead(queue), snap |-> slides])
              ELSE delays)

\* The Analysis Client settles call k and the commit's effect is deferred.
SettleDeferred(k, outcome) ==
    /\ ~deferred
    /\ k \in DOMAIN calls
    /\ calls' = SubSeq(calls, 1, k - 1) \o SubSeq(calls, k + 1, Len(calls))
    /\ now' = now + 1
    /\ processingRef' = GuardAfter(processingRef, calls[k].id, outcome)
    /\ slides' = CopySettled(calls[k].snap, calls[k].id, outcome,
                             calls[k].prompt, now + 1)
    /\ Debounce(slides', now + 1)
    /\ deferred' = TRUE
    /\ UNCHANGED <<queue, delays, budget, hist, app, editor>>

\* The deferred effect runs before anything else happens.
FlushEffect ==
    /\ deferred
    /\ deferred' = FALSE
    /\ Commit(slides, queue, processingRef, delays)
    /\ UNCHANGED <<processingRef, calls, budget, now, save, hist, app, editor>>

\* The clicks on the queue, handled before the deferred effect has run.
EnqueueBeforeEffect(id) ==
    /\ AddButtonShown(slides, queue, id)
    /\ CommitAfterClick(AddToQueue(queue, id))
    /\ requested' = requested \cup {id}
    /\ disturbed' = disturbed \cup ({id} \cap requested)
    /\ UNCHANGED <<processingRef, calls, budget, now, save, writeFailed, app, editor>>

DequeueBeforeEffect(id) ==
    /\ Includes(queue, id)
    /\ CommitAfterClick(RemoveFromQueue(queue, id))
    /\ disturbed' = disturbed \cup {id}
    /\ UNCHANGED <<processingRef, calls, budget, now, save, requested, writeFailed,
                   app, editor>>

ClearQueueBeforeEffect ==
    /\ Len(queue) > 0
    /\ CommitAfterClick(<<>>)
    /\ disturbed' = disturbed \cup {queue[k] : k \in 1..Len(queue)}
    /\ UNCHANGED <<processingRef, calls, budget, now, save, requested, writeFailed,
                   app, editor>>

\* The queue controller with the effect of a settled call's commit deferred.
InitRace == Start(RaceCalls)

NextRace ==
    \/ \E id \in Ids : ~deferred /\ Enqueue(id)
    \/ \E id \in Ids : ~deferred /\ Dequeue(id)
    \/ ~deferred /\ ClearQueue
    \/ \E id \in Ids : ~deferred /\ TryAgain(id)
    \/ \E id \in Ids : ~deferred /\ RegenerateButton(id, "")
    \/ \E id \in Ids : ~deferred /\ AnalyzeSlideButton(id, "")
    \/ ~deferred /\ Admit
    \/ \E k \in DOMAIN calls, o \in Outcomes : SettleDeferred(k, o)
    \/ FlushEffect
    \/ \E id \in Ids : EnqueueBeforeEffect(id)
    \/ \E id \in Ids : DequeueBeforeEffect(id)
    \/ ClearQueueBeforeEffect

SpecRace == InitRace /\ [][NextRace]_vars

\* ------------------------------------------------------- application shell
\* What the file input hands to handleFileUpload: no file, a PDF, another type.
Files == {"none", "application/pdf", "image/png"}

\* if (appState === 'VIEWER' && currentPresentation) ...
ViewerShown == appState = "VIEWER" /\ currentPresentation # 0

\* if (appState === 'DASHBOARD' && user) ...
DashboardShown == ~ViewerShown /\ appState = "DASHBOARD" /\ user

\* The common layout with appState other than LANDING: the upload box.
UploadShown == ~ViewerShown /\ ~DashboardShown /\ appState # "LANDING"

\* authService.onUserChanged: the listener of the current render.
OnUserChanged(u) ==
    /\ user' = u
    /\ appState' = IF u /\ appState = "LANDING" THEN "DASHBOARD"
                   ELSE IF ~u /\ appState # "LANDING" THEN "LANDING"
                   ELSE appState
    /\ UNCHANGED <<core, save, hist, deferred, editor, error, isLoading, currentPresentation,
                   upload, login, created>>

\* Sign in with Google, rendered on the landing page while the spinner is
\* off: handleLoginClick up to its await.
HandleLoginClick ==
    /\ ~ViewerShown /\ ~DashboardShown /\ appState = "LANDING"
    /\ ~isLoading
    /\ isLoading' = TRUE
    /\ error' = "null"
    /\ login' = TRUE
    /\ UNCHANGED <<core, save, hist, deferred, editor, appState, user, currentPresentation,
                   upload, created>>

\* await authService.loginWithGoogle() ends; the signed-in user arrives
\* through the listener (OnUserChanged).
LoginDone(ok) ==
    /\ login
    /\ login' = FALSE
    /\ isLoading' = FALSE
    /\ error' = IF ok THEN error ELSE "login"
    /\ UNCHANGED <<core, save, hist, deferred, editor, appState, user, currentPresentation,
                   upload, created>>

\* The dashboard's New button: onNew={() => setAppState('UPLOAD')}.
OnNew ==
    /\ DashboardShown
    /\ appState' = "UPLOAD"
    /\ UNCHANGED <<core, save, hist, deferred, editor, user, error, isLoading,
                   currentPresentation, upload, login, created>>

\* The back arrow of the upload box and of the viewer: setAppState('DASHBOARD').
OnBack ==
    /\ UploadShown \/ (ViewerShown /\ user)
    /\ appState' = "DASHBOARD"
    /\ UNCHANGED <<core, save, hist, deferred, editor, user, error, isLoading,
                   currentPresentation, upload, login, created>>

\* openPresentation(p), p one of the stored presentations the dashboard lists.
OpenPresentation(p) ==
    /\ DashboardShown
    /\ p \in 1..created
    /\ currentPresentation' = p
    /\ appState' = "VIEWER"
    /\ UNCHANGED <<core, save, hist, deferred, editor, user, error, isLoading, upload, login,
                   created>>

\* A handleFileUpload that takes any file.
HandleFileUploadUnchecked(file) ==
    /\ UploadShown
    /\ ~isLoading
    /\ IF file = "none"
       THEN UNCHANGED <<error, isLoading, upload>>
       ELSE /\ created < MaxUploads
            /\ isLoading' = TRUE
            /\ error' = "null"
            /\ upload' = "processPdf"
    /\ UNCHANGED <<core, save, hist, deferred, editor, appState, user, currentPresentation,
                   login, created>>

\* handleFileUpload up to its first await.  The file input is rendered in the
\* upload box while the spinner is off.
HandleFileUpload(file) ==
    /\ UploadShown
    /\ ~isLoading
    /\ IF file = "none"
       THEN UNCHANGED <<error, isLoading, upload>>
       ELSE IF ~user
       THEN error' = "notLoggedIn" /\ UNCHANGED <<isLoading, upload>>
       ELSE IF file # "application/pdf"
       THEN error' = "notPdf" /\ UNCHANGED <<isLoading, upload>>
       ELSE /\ created < MaxUploads
            /\ isLoading' = TRUE
            /\ error' = "null"
            /\ upload' = "processPdf"
    /\ UNCHANGED <<core, save, hist, deferred, editor, appState, user, currentPresentation,
                   login, created>>

\* await processPdf(file) ends: the slides are extracted, or it threw
\* (catch: setError; finally: setIsLoading(false)).
ProcessPdfDone(ok) ==
    /\ upload = "processPdf"
    /\ IF ok
       THEN upload' = "savePresentation" /\ UNCHANGED <<error, isLoading>>
       ELSE upload' = "none" /\ error' = "failed" /\ isLoading' = FALSE
    /\ UNCHANGED <<core, save, hist, deferred, editor, appState, user, currentPresentation,
                   login, created>>

\* await savePresentation(newPresentation) ends: the document is stored and
\* the viewer opens on it, or the write threw (it throws when nobody is
\* signed in).
SavePresentationDone(ok) ==
    /\ upload = "savePresentation"
    /\ ok => user
    /\ upload' = "none"
    /\ isLoading' = FALSE
    /\ IF ok
       THEN /\ created' = created + 1
            /\ currentPresentation' = created + 1
            /\ appState' = "VIEWER"
            /\ UNCHANGED error
       ELSE /\ error' = "failed"
            /\ UNCHANGED <<created, currentPresentation, appState>>
    /\ UNCHANGED <<core, save, hist, deferred, editor, user, login>>

\* The shell from the landing page on: nobody signed in, nothing stored.
InitUpload ==
    /\ Viewer(0)
    /\ appState = "LANDING"
    /\ user = FALSE
    /\ error = "null"
    /\ isLoading = FALSE
    /\ currentPresentation = 0
    /\ upload = "none"
    /\ login = FALSE
    /\ created = 0

NextUpload ==
    \/ \E u \in BOOLEAN : OnUserChanged(u)
    \/ HandleLoginClick
    \/ \E ok \in BOOLEAN : LoginDone(ok)
    \/ OnNew
    \/ OnBack
    \/ \E p \in 1..created : OpenPresentation(p)
    \/ \E file \in Files : HandleFileUpload(file)
    \/ \E ok \in BOOLEAN : ProcessPdfDone(ok)
    \/ \E ok \in BOOLEAN : SavePresentationDone(ok)

SpecUpload == InitUpload /\ [][NextUpload]_vars

\* ------------------------------------------------------------------ claims
Loading == {i \in Ids : slides[i].status = "LOADING"}

\* The call a step starts, when it starts one.
StartsCall == Len(calls') > Len(calls)
NewCall == calls'[Len(calls')]

\* Position of id in the queue (0 when absent).
Pos(q, id) == IF Includes(q, id) THEN CHOOSE k \in 1..Len(q) : q[k] = id ELSE 0

\* C1: in every reachable state at most one slide has status LOADING.
C1_SingleFlight == Cardinality(Loading) <= 1

\* C2: in every reachable state at most one Analysis Client call is outstanding.
C2_OneOutstandingCall == Len(calls) <= 1

\* C3: a triggerAnalysis(id) made by admission or by Try Again while an earlier
\* call for id is still outstanding starts no Analysis Client call: no call
\* of origin queue or tryAgain overlaps an older call for the same slide.
C3_SecondTriggerStartsNoCall ==
    \A j, k \in DOMAIN calls :
        (j < k /\ calls[j].id = calls[k].id)
            => calls[k].origin \notin {"queue", "tryAgain"}

\* C4: a regenerate starts no call for a slide while an earlier call for
\* that slide is still outstanding.
C4_RegenerateWaits ==
    \A j, k \in DOMAIN calls :
        (j < k /\ calls[j].id = calls[k].id)
            => calls[k].origin \notin {"regenerate", "analyzeSlide"}

\* C5: a session starts with an empty queue; a slide never enqueued and never
\* manually triggered keeps its initial record and is never queued, admitted
\* or analyzed; admission decides only for the head of the queue, and a call
\* of origin queue is the call of the admission that woke up.
C5_Untouched ==
    /\ requested = {} => queue = <<>>
    /\ \A s \in Ids \ requested :
        /\ slides[s] = NewSlide(s)
        /\ ~Includes(queue, s)
        /\ \A k \in DOMAIN delays : delays[k].id # s
        /\ \A k \in DOMAIN calls : calls[k].id # s
C5_HeadOnly ==
    /\ Len(delays') > Len(delays) =>
          /\ Len(queue') > 0
          /\ delays'[Len(delays')].id = queue'[1]
    /\ (StartsCall /\ NewCall.origin = "queue") =>
          /\ Len(delays) > 0
          /\ NewCall.id = Head(delays).id
C6_NoDuplicates ==
    \A j, k \in DOMAIN queue : j # k => queue[j] # queue[k]

\* C6 witness: a full queue whose tail was removed and enqueued again.
C6_Witness ==
    /\ Len(queue) = 3
    /\ queue[3] \in disturbed

\* C7 as stated: enqueue appends whenever the slide is not queued and not SUCCESS.
C7_EnqueueUnlessSuccess ==
    \A id \in Ids :
        (~Includes(queue, id) /\ slides[id].status # "SUCCESS"
            /\ Len(delays) < MaxDelays)
        => ENABLED (Enqueue(id) /\ queue' = Append(queue, id))

\* C7 amended: enqueue appends the slide at the tail when it is not queued
\* and its status is IDLE or ERROR; when it is queued, SUCCESS or LOADING the
\* queue cannot be changed by enqueue.  Enqueue changes no slide, starts no
\* call and leaves the guard set alone.
C7_EnqueueIdleOrError ==
    \A id \in Ids :
        IF ~Includes(queue, id) /\ slides[id].status \in {"IDLE", "ERROR"}
        THEN /\ Len(delays) < MaxDelays => ENABLED Enqueue(id)
             /\ ~ENABLED (Enqueue(id) /\ ~(/\ queue' = Append(queue, id)
                                           /\ slides' = slides
                                           /\ calls' = calls
                                           /\ budget' = budget
                                           /\ processingRef' = processingRef))
        ELSE ~ENABLED Enqueue(id)

\* C7 witness: slide 3 failed before any slide was queued, and was then
\* enqueued, as an ERROR slide, at the tail behind slide 2.
C7_Witness ==
    /\ queue = <<2, 3>>
    /\ slides[3].status = "ERROR"
    /\ slides[2] = NewSlide(2)
    /\ calls = <<>>

\* C8: admission is FIFO.  For queued slides a ahead of b, each enqueued once
\* and neither ever dequeued nor manually triggered: b is still as ingested
\* and has no sleeping admission and no call; and the step that starts b's
\* call by admission finds no such a ahead of b (a was drained, as SUCCESS).
\* A slide never requested has no call.
C8_Behind ==
    \A a, b \in Ids \ disturbed :
        (Pos(queue, a) > 0 /\ Pos(queue, a) < Pos(queue, b)) =>
            /\ slides[b] = NewSlide(b)
            /\ \A k \in DOMAIN delays : delays[k].id # b
            /\ \A k \in DOMAIN calls : calls[k].id # b
C8_StartInOrder ==
    (StartsCall /\ NewCall.origin = "queue" /\ NewCall.id \notin disturbed) =>
        \A a \in Ids \ disturbed :
            ~(Pos(queue, a) > 0 /\ Pos(queue, a) < Pos(queue, NewCall.id))
C8_Fifo ==
    /\ [](C8_Behind /\ \A k \in DOMAIN calls : calls[k].id \in requested)
    /\ [][C8_StartInOrder]_vars

\* C8 witness: 2 then 3 were enqueued and nothing else was done; slide 2 is
\* SUCCESS and drained, slide 3 is being analyzed, slide 1 was never analyzed.
C8_Witness ==
    /\ requested = {2, 3}
    /\ disturbed = {}
    /\ slides[2].status = "SUCCESS"
    /\ slides[3].status = "LOADING"
    /\ slides[1] = NewSlide(1)
    /\ queue = <<3>>
    /\ Len(calls) = 1 /\ calls[1].id = 3 /\ calls[1].origin = "queue"

\* C9: admission starts no Analysis Client call for a slide that is SUCCESS.
C9_AdmissionSkipsSuccess ==
    [][(StartsCall /\ NewCall.origin = "queue")
          => slides[NewCall.id].status # "SUCCESS"]_vars

\* C10: no queue entry refers to a slide whose status is SUCCESS.
C10_NoSuccessInQueue ==
    \A k \in DOMAIN queue : slides[queue[k]].status # "SUCCESS"

\* C11: self-healing retry.  When the call for the slide at the head of the
\* queue rejects, the slide becomes ERROR and the queue is left as it was;
\* as soon as no slide is LOADING the admission cycle sleeps for that same
\* slide again, and a sleeping admission whose slide is not guarded starts a
\* new Analysis Client call for it.  Nothing counts the retries.
C11_FailKeepsHead ==
    \A k \in DOMAIN calls :
        (Settle(k, "reject") /\ Len(queue) > 0 /\ calls[k].id = QueueHead(queue)) =>
            /\ slides'[calls[k].id].status = "ERROR"
            /\ queue' = queue
            /\ calls[k].id \notin processingRef'
            /\ ~IsAnyLoading(slides') =>
                  \E d \in DOMAIN delays' : delays'[d].id = calls[k].id
C11_AdmissionRetries ==
    (Len(delays) > 0 /\ ~GuardHeld(processingRef, Head(delays).id) /\ budget > 0) =>
        ENABLED (/\ Admit
                 /\ StartsCall
                 /\ NewCall.id = Head(delays).id
                 /\ NewCall.origin = "queue")
Settles(k) == \E o \in Responses : Settle(k, o)

\* C12: a slide whose call resolved is SUCCESS only when the text is not
\* empty: no SUCCESS slide has the empty string as its explanation.
C12_EmptyTextIsError ==
    \A i \in Ids : slides[i].status = "SUCCESS" => slides[i].explanation # ""

\* A behaviour of the bounded model is cut short when a call cannot settle or
\* a sleeping processQueue cannot wake up because a bound is used up.
CutShort ==
    \/ calls # <<>> /\ ~ENABLED (\E k \in DOMAIN calls, o \in Outcomes : Settle(k, o))
    \/ delays # <<>> /\ ~ENABLED Admit

\* C13: when every started call settles, a slide that is LOADING is later
\* SUCCESS or ERROR (in a behaviour that no bound cuts short).
C13_NoStuckLoading ==
    \A i \in Ids :
        (slides[i].status = "LOADING")
            ~> (slides[i].status \in {"SUCCESS", "ERROR"} \/ CutShort)

\* C14: debounce coalescing.  At most one save timeout is armed, and it is the
\* one handleSave created last, holding the slides in memory: every
\* handleSave of a burst replaces the timeout of the one before and starts no
\* write.  A timeout that fires starts exactly one savePresentation, with the
\* slides as they are after the last mutation, and leaves no timeout armed.
C14_OneTimer ==
    /\ Cardinality(timers) <= 1
    /\ \A t \in timers : t.id = timerRef /\ t.snap = slides
C14_Step ==
    /\ timerRef' # timerRef =>
          /\ writes' = writes
          /\ timers' = {[id |-> timerRef', snap |-> slides',
                          lastModified |-> lastModified']}
    /\ writes' # writes /\ Len(writes') >= Len(writes) =>
          /\ writes' = Append(writes, slides)
          /\ timers # {} /\ timers' = {}
          /\ slides' = slides
C14_DebounceCoalescing == []C14_OneTimer /\ [][C14_Step]_vars

\* C14 witness: two mutations (LOADING, then the settled slide) arrived within
\* one debounce window; one write was started, with the slides after the
\* second, and no other write was ever started.
C14_Witness ==
    /\ timerRef = 2
    /\ timers = {}
    /\ writes = <<slides>>
    /\ stored = [i \in Ids |-> NewSlide(i)]
    /\ ~writeFailed
    /\ \E i \in Ids : slides[i].status \in {"SUCCESS", "ERROR"}

\* C15: at quiescence (no call outstanding, no save timeout armed, no write
\* in flight, no write ever failed) the stored slides are the slides in
\* memory.
C15_FinalStateDurable ==
    (calls = <<>> /\ timers = {} /\ writes = <<>> /\ ~writeFailed)
        => stored = slides

\* C16: the saving indicator is on exactly when a save timeout is armed or a
\* savePresentation call is in flight.
C16_SavingIndicator ==
    isSaving <=> (timers # {} \/ writes # <<>>)

\* C17: when a call settles, a snapshot in which its slide is LOADING has been
\* handed to savePresentation since the call started.
C17_LoadingPersistedFirst ==
    [][\A k \in DOMAIN calls : Settles(k) => calls[k].saved]_vars

\* C18: SUCCESS records what was used.  The prompt a triggerAnalysis passes
\* to the Analysis Client is the override when one is given, else the
\* customPrompt stored on the slide, else the default instruction.  When the
\* call resolves, the slide is SUCCESS with the returned text as explanation,
\* the current user as analyzedBy and the prompt of the call as customPrompt,
\* and the save timeout armed by that step holds the same record.
C18_PromptOfCall ==
    StartsCall =>
        NewCall.prompt =
            IF NewCall.override # "" THEN NewCall.override
            ELSE IF slides[NewCall.id].customPrompt # ""
                 THEN slides[NewCall.id].customPrompt
                 ELSE DefaultInstruction
C18_RecordOfSuccess ==
    \A k \in DOMAIN calls : \A o \in Responses \ {"reject"} :
        Settle(k, o) =>
            /\ slides'[calls[k].id].status = "SUCCESS"
            /\ slides'[calls[k].id].explanation = o
            /\ slides'[calls[k].id].analyzedBy.userId = CurrentUser
            /\ slides'[calls[k].id].customPrompt = calls[k].prompt
            /\ \E t \in timers' :
                  /\ t.id = timerRef'
                  /\ t.snap[calls[k].id] = slides'[calls[k].id]
C18_SuccessRecordsWhatWasUsed ==
    [][C18_PromptOfCall /\ C18_RecordOfSuccess]_vars

\* C19: a regenerate of a SUCCESS slide with override X that resolves leaves
\* the slide SUCCESS with customPrompt X and an analyzedBy.timestamp greater
\* than the one the slide had when the regenerate started and than the one it
\* has when the call resolves.
C19_Regenerated ==
    \A k \in DOMAIN calls : \A o \in Responses \ {"reject"} :
        (/\ Settle(k, o)
         /\ calls[k].origin \in {"regenerate", "analyzeSlide"}
         /\ calls[k].was = "SUCCESS") =>
            /\ slides'[calls[k].id].status = "SUCCESS"
            /\ slides'[calls[k].id].customPrompt = calls[k].override
            /\ slides'[calls[k].id].analyzedBy.timestamp
                  > calls[k].snap[calls[k].id].analyzedBy.timestamp
            /\ slides'[calls[k].id].analyzedBy.timestamp
                  > slides[calls[k].id].analyzedBy.timestamp
C19_RegenerateWithOverride == [][C19_Regenerated]_vars

\* C19 witness: the only slide ever analyzed was analyzed twice; its record is
\* that of the second analysis, made with the text X.
C19_Witness ==
    /\ requested = {2}
    /\ calls = <<>>
    /\ now = 3
    /\ slides[2].status = "SUCCESS"
    /\ slides[2].customPrompt = "X"
    /\ slides[2].analyzedBy = Attribution(3)

\* C20: the guard is released on every exit path.  The step that settles a
\* call, by SUCCESS or by ERROR, leaves its slide out of the guard set; the
\* guard set holds only slides with an outstanding call; and for a slide that
\* is not guarded Try Again starts a new call.
C20_Released ==
    \A k \in DOMAIN calls : Settles(k) => ~GuardHeld(processingRef', calls[k].id)
C20_NoLeak ==
    /\ \A id \in processingRef : \E k \in DOMAIN calls : calls[k].id = id
    /\ \A id \in Ids :
          (~GuardHeld(processingRef, id) /\ slides[id].status = "ERROR" /\ budget > 0)
              => ENABLED (TryAgain(id) /\ StartsCall /\ NewCall.id = id)
C20_GuardRelease == []C20_NoLeak /\ [][C20_Released]_vars

\* C20 witness: a call ended in ERROR, and Try Again has started a new call
\* for the same slide, which alone holds the guard.
C20_Witness ==
    /\ Len(calls) = 1
    /\ calls[1].origin = "tryAgain"
    /\ calls[1].was = "ERROR"
    /\ processingRef = {calls[1].id}

\* C21: admission starts no Analysis Client call for a slide that was taken
\* off the queue (dequeue, clearQueue) before any call for it had started,
\* unless it was enqueued again: whenever a step starts a call from the queue
\* for a slide that is still as ingested, the slide is in the queue.
C21_AdmitsQueuedOnly ==
    (StartsCall /\ NewCall.origin = "queue" /\ slides[NewCall.id] = NewSlide(NewCall.id))
        => Includes(queue, NewCall.id)

C21_DequeuePreventsAdmission == [][C21_AdmitsQueuedOnly]_vars

\* C22: a started call is not cancelled.  A dequeue of a slide or a clearQueue
\* while calls are in flight changes no slide, no call in flight and no
\* guard; and whatever was dequeued meanwhile, a call that resolves leaves
\* its slide SUCCESS and a call that rejects leaves it ERROR.
C22_Frame ==
    ((\E id \in Ids : Dequeue(id)) \/ ClearQueue)
        => (slides' = slides /\ calls' = calls /\ processingRef' = processingRef)

C22_Outcome ==
    \A k \in DOMAIN calls, o \in Outcomes :
        Settle(k, o) => slides'[calls[k].id].status =
                            (IF o = "reject" THEN "ERROR" ELSE "SUCCESS")

Edges == {<<"IDLE", "LOADING">>, <<"ERROR", "LOADING">>, <<"SUCCESS", "LOADING">>,
          <<"LOADING", "SUCCESS">>, <<"LOADING", "ERROR">>}

\* C23: across every step, the status of every slide stays the same or
\* changes along an edge of the state machine (to LOADING from IDLE, ERROR
\* or SUCCESS; from LOADING to SUCCESS or ERROR).
C23_StepOnEdge ==
    \A i \in Ids :
        \/ slides'[i].status = slides[i].status
        \/ <<slides[i].status, slides'[i].status>> \in Edges

C23_StatusEdgesOnly == [][C23_StepOnEdge]_vars

\* The slides a step moves from LOADING to SUCCESS.
Succeeded == {i \in Ids : slides[i].status = "LOADING" /\ slides'[i].status = "SUCCESS"}

\* C24: the usage tracker is invoked exactly once for each LOADING to SUCCESS
\* transition of a slide and never for an ERROR outcome: a step in which a
\* call settles moves one slide from LOADING to SUCCESS if it invokes the
\* tracker and none if it does not, and no other step moves a slide from
\* LOADING to SUCCESS.  (The report's own failure changes nothing: the
\* viewer neither awaits it nor reads its result.)
C24_TrackedPerTransition ==
    /\ \A k \in DOMAIN calls, o \in Outcomes :
           Settle(k, o) => Cardinality(Succeeded) = (IF TracksUsage(o) THEN 1 ELSE 0)
    /\ now' = now => Succeeded = {}

C24_UsageReporting == [][C24_TrackedPerTransition]_vars

\* C25: a failed Persistence Gateway write is not rolled back.  The step in
\* which a write fails changes no slide and not the queue, clears the saving
\* indicator and leaves the armed timeout alone; and once a write has
\* failed, every later handleSave still arms a timeout with the slides it
\* committed, an armed timeout can still fire, a firing timeout still hands
\* its snapshot to savePresentation, and a write that succeeds is stored.
C25_FailureStep ==
    (\E k \in DOMAIN writes : WriteDone(k, FALSE))
        => /\ slides' = slides
           /\ queue' = queue
           /\ ~isSaving'
           /\ timers' = timers

C25_LaterStep ==
    writeFailed =>
        /\ timerRef' # timerRef
              => (isSaving' /\ [id |-> timerRef', snap |-> slides',
                                lastModified |-> lastModified'] \in timers')
        /\ \A t \in timers : TimerFires(t) => writes' = Append(writes, t.snap)
        /\ \A k \in DOMAIN writes : WriteDone(k, TRUE) => stored' = writes[k]

C25_StillFires ==
    (writeFailed /\ Len(writes) < MaxWrites)
        => \A t \in timers : ENABLED TimerFires(t)

C25_NoRollback == []C25_StillFires /\ [][C25_FailureStep /\ C25_LaterStep]_vars

\* After a write failed and every write had ended (the indicator was
\* cleared), a call settled: its handleSave set the indicator again and
\* armed a timeout with the settled slides, which the screen still shows.
C25_Witness ==
    /\ writeFailed
    /\ writes = <<>>
    /\ isSaving
    /\ calls = <<>>
    /\ \E t \in timers : t.snap = slides
    /\ stored # slides

\* C26: slide identity is stable.  The ingestion yields slides with pairwise
\* distinct ids, pageNumbers 1..N in sequence order and status IDLE (the
\* slides before the first handleSave), and in every reachable state the
\* presentation on screen and the stored one still have the same slides at
\* the same places with the same id and pageNumber.
C26_SameSlides(sl) ==
    /\ DOMAIN sl = Ids
    /\ \A i \in Ids : sl[i].id = NewSlide(i).id /\ sl[i].pageNumber = i
    /\ \A i, j \in Ids : i # j => sl[i].id # sl[j].id

C26_SlideIdentity ==
    /\ C26_SameSlides(slides)
    /\ C26_SameSlides(stored)
    /\ timerRef = 0 => \A i \in Ids : slides[i].status = "IDLE"

\* Analyses have started and settled both ways and the queue is in use:
\* slide 1 failed, slide 2 succeeded, slide 3 is queued.
C26_Witness ==
    /\ slides[1].status = "ERROR"
    /\ slides[2].status = "SUCCESS"
    /\ queue = <<3>>
    /\ disturbed # {}

\* r holds the entries of q other than id, as often and in the same order.
C27_Without(q, r, id) ==
    /\ ~Includes(r, id)
    /\ Len(r) = Cardinality({k \in 1..Len(q) : q[k] # id})
    /\ \A x \in Ids \ {id} : Includes(q, x) <=> Includes(r, x)
    /\ \A x, y \in Ids \ {id} :
           (Includes(q, x) /\ Includes(q, y) /\ Pos(q, x) < Pos(q, y))
               => Pos(r, x) < Pos(r, y)

\* r is q without some leading entries, all of them slides that are SUCCESS.
C27_Drained(q, r, sl) ==
    \E n \in 0..Len(q) :
        /\ r = SubSeq(q, n + 1, Len(q))
        /\ \A k \in 1..n : sl[q[k]].status = "SUCCESS"

\* C27: dequeue(slideId) removes slideId from the queue whatever the status
\* of the slide and wherever it stands, keeps the other entries in their
\* order, and changes nothing when slideId is not queued; clearQueue leaves
\* the queue empty.  (The queue effect that follows the commit may then pop
\* stale heads, as after any commit.)
C27_Filter ==
    \A id \in Ids :
        /\ C27_Without(queue, RemoveFromQueue(queue, id), id)
        /\ ~Includes(queue, id) => RemoveFromQueue(queue, id) = queue
        /\ (Includes(queue, id) /\ Len(delays) < MaxDelays) => ENABLED Dequeue(id)

C27_Step ==
    /\ \A id \in Ids :
           Dequeue(id) => /\ ~Includes(queue', id)
                          /\ \E r \in {RemoveFromQueue(queue, id)} :
                                 /\ C27_Without(queue, r, id)
                                 /\ C27_Drained(r, queue', slides)
    /\ ClearQueue => queue' = <<>>

C27_DequeueAndClear == []C27_Filter /\ [][C27_Step]_vars

\* Slide 2, still IDLE, was taken from the middle of the queue <<1, 2, 3>>
\* while the call of the head was in flight.
C27_Witness ==
    /\ queue = <<1, 3>>
    /\ requested = {1, 2, 3}
    /\ disturbed = {2}
    /\ budget = QueueCalls - 1
    /\ slides[1].status = "LOADING"
    /\ slides[2] = NewSlide(2)
    /\ slides[3] = NewSlide(3)

\* C28: an input error leaves the state untouched.  A step of
\* handleFileUpload on a file that is not a PDF, or with nobody signed in,
\* sets the error message and nothing else: no upload starts (no ingestion,
\* no presentation, no Persistence Gateway write), the presentation handed
\* to the viewer and the stored presentations are the same, and the
\* application state is the same, so it does not move to VIEWER.
C28_RejectedUpload ==
    \A file \in Files \ {"none"} :
        (HandleFileUpload(file) /\ (file # "application/pdf" \/ ~user))
            => /\ error' = (IF ~user THEN "notLoggedIn" ELSE "notPdf")
               /\ upload' = "none"
               /\ UNCHANGED <<appState, user, isLoading, currentPresentation,
                              login, created, slides, stored, writes, timers>>

C28_InputError == [][C28_RejectedUpload]_vars

\* A file that is not a PDF was rejected in the upload box after an earlier
\* upload had stored a presentation.
C28_Witness ==
    /\ error = "notPdf"
    /\ appState = "UPLOAD"
    /\ upload = "none"
    /\ created = 1

\* C29: the stale-head drain removes only stale entries.  Whenever a step
\* takes a slide off the queue that the user did not remove in that step
\* (its trash button, Clear Queue), no slide is LOADING afterwards, the
\* slide taken off is SUCCESS and the step starts no Analysis Client call;
\* also when a click changed the queue between the effect's decision and
\* its pop.
C29_RemovedByUser(id) ==
    \/ Dequeue(id)
    \/ DequeueBeforeEffect(id)
    \/ ClearQueue
    \/ ClearQueueBeforeEffect

C29_Step ==
    \A id \in Ids :
        (Includes(queue, id) /\ ~Includes(queue', id) /\ ~C29_RemovedByUser(id))
            => /\ ~IsAnyLoading(slides')
               /\ slides'[id].status = "SUCCESS"
               /\ ~StartsCall

C29_DrainOnlyStale == [][C29_Step]_vars

\* Every slide other than id is the same after the step.
C30_OthersKept(id) == \A j \in Ids \ {id} : slides'[j] = slides[j]

\* C30: a transition of one slide leaves every other slide unchanged.  A
\* step in which triggerAnalysis(id) sets slide id LOADING (it starts a
\* call) or SUCCESS or ERROR (its call settles) leaves the status,
\* explanation, customPrompt and analyzedBy of every other slide as they
\* were just before the step.
C30_Step ==
    /\ StartsCall => C30_OthersKept(NewCall.id)
    /\ \A k \in DOMAIN calls, o \in Outcomes :
           Settle(k, o) => C30_OthersKept(calls[k].id)

C30_OtherSlidesUnchanged == [][C30_Step]_vars

\* The slides with an outstanding Analysis Client call.
InFlight == {calls[k].id : k \in DOMAIN calls}

\* C31: in every reachable state a slide is LOADING if and only if an
\* Analysis Client call for it is outstanding, the in-flight guard set holds
\* exactly the slides with an outstanding call, and no slide has two
\* outstanding calls.
C31_StatusAgreesWithCalls ==
    /\ Loading = InFlight
    /\ processingRef = InFlight
    /\ \A j, k \in DOMAIN calls : calls[j].id = calls[k].id => j = k

\* A step of the viewer that no user takes: a sleeping processQueue wakes
\* up, or an Analysis Client call resolves with text.
Quiet == Admit \/ \E k \in DOMAIN calls : Settle(k, "text")

\* C32: when from some state on every step is a step no user takes and
\* every call resolves with text, the queue is eventually empty for good (in a
\* behaviour that no bound cuts short): admission is never blocked for good.
C32_QueueDrains ==
    <>[][Quiet]_vars => <>[](queue = <<>> \/ CutShort)

\* The result a slide record carries besides its status.
C33_Result(s) == <<s.explanation, s.customPrompt, s.analyzedBy>>

\* C33: a step that moves a slide to LOADING or to ERROR changes only its
\* status (explanation, customPrompt and analyzedBy stay as they were), and
\* analyzedBy changes only in a step that takes the slide from LOADING to
\* SUCCESS.
C33_Step ==
    \A i \in Ids :
        /\ (slides'[i].status \in {"LOADING", "ERROR"}
              /\ slides'[i].status # slides[i].status)
             => C33_Result(slides'[i]) = C33_Result(slides[i])
        /\ slides'[i].analyzedBy # slides[i].analyzedBy
             => slides[i].status = "LOADING" /\ slides'[i].status = "SUCCESS"

C33_KeepsPreviousResult == [][C33_Step]_vars

\* ------------------------------------------------------- the prompt editor
\* In the specifications above a click names the slide it is made on and the
\* text the editor holds.  Here the displayed slide and the editor are state:
\* the user moves between slides, opens the editor, types, closes it, and
\* regenerates the slide on display.
PromptCalls == 2    \* Analysis Client calls started in one behaviour of SpecPrompt

\* const currentSlide = slides[currentIndex]
CurrentSlide == slides[currentIndex]

\* setCurrentIndex(index) of a sidebar entry; handlePrev and handleNext set
\* the index of a neighbour.
SetCurrentIndex(i) ==
    /\ i \in DOMAIN slides
    /\ currentIndex' = i
    /\ UNCHANGED <<core, save, hist, deferred, app, isEditingPrompt,
                   customPromptInput, editedFor>>

\* openPromptEditor: the Edit Prompt button of the panel header, which the
\* open editor covers.
OpenPromptEditor ==
    /\ ~isEditingPrompt
    /\ customPromptInput' = CurrentSlide.customPrompt
    /\ isEditingPrompt' = TRUE
    /\ editedFor' = currentIndex
    /\ UNCHANGED <<core, save, hist, deferred, app, currentIndex>>

\* onChange of the editor's textarea: setCustomPromptInput(e.target.value).
TypePrompt(text) ==
    /\ isEditingPrompt
    /\ customPromptInput' = text
    /\ editedFor' = currentIndex
    /\ UNCHANGED <<core, save, hist, deferred, app, currentIndex, isEditingPrompt>>

\* The editor's X and Cancel buttons: setIsEditingPrompt(false).
CloseEditor ==
    /\ isEditingPrompt
    /\ isEditingPrompt' = FALSE
    /\ UNCHANGED <<core, save, hist, deferred, app, currentIndex,
                   customPromptInput, editedFor>>

\* The header's Regenerate button, on the slide on display with the text the
\* editor state holds.
RegenerateDisplayed ==
    /\ ~isEditingPrompt
    /\ RegenerateButton(CurrentSlide.id, customPromptInput)

\* The editor's Analyze Slide button.
AnalyzeDisplayed ==
    /\ isEditingPrompt
    /\ AnalyzeSlideButton(CurrentSlide.id, customPromptInput)

InitPrompt == Start(PromptCalls)

NextPrompt ==
    \/ \E i \in Ids : SetCurrentIndex(i)
    \/ OpenPromptEditor
    \/ \E text \in PromptInputs : TypePrompt(text)
    \/ CloseEditor
    \/ RegenerateDisplayed
    \/ AnalyzeDisplayed
    \/ \E k \in DOMAIN calls, o \in Outcomes : Settle(k, o)

SpecPrompt == InitPrompt /\ [][NextPrompt]_vars

\* C34: a regenerate of slide s is made with s's stored customPrompt or with
\* text that was loaded or typed in the editor while s was on display, never
\* with text the editor got while another slide was on display.
C34_Step ==
    (StartsCall /\ NewCall.origin \in {"regenerate", "analyzeSlide"})
        => \/ NewCall.override = slides[NewCall.id].customPrompt
           \/ editedFor = NewCall.id /\ NewCall.override = customPromptInput

C34_RegenerateUsesOwnPrompt == [][C34_Step]_vars

\* C35: every handleSave (the only step that changes the slides) sets
\* lastModified to the time of the step, so lastModified never decreases;
\* the timeout it arms holds the slides and the lastModified of that
\* handleSave, and a timeout that fires hands exactly that snapshot to
\* savePresentation.
C35_Armed ==
    /\ lastModified <= now
    /\ \A t \in timers : t.snap = slides /\ t.lastModified = lastModified

C35_Step ==
    /\ lastModified' >= lastModified
    /\ slides' # slides => timerRef' # timerRef
    /\ timerRef' # timerRef =>
          /\ lastModified' = now'
          /\ [id |-> timerRef', snap |-> slides', lastModified |-> now'] \in timers'
    /\ \A t \in timers :
          TimerFires(t) => /\ t.lastModified = lastModified
                           /\ writes' = Append(writes, t.snap)
                           /\ lastModified' = lastModified

C35_LastModifiedTracksMutations == []C35_Armed /\ [][C35_Step]_vars

\* C35 witness: the snapshot of a LOADING transition was handed to
\* savePresentation, the call settled one tick later, and the timeout armed
\* by that handleSave holds the settled slides with the later lastModified.
C35_Witness ==
    /\ now = 2
    /\ lastModified = 2
    /\ Len(writes) = 1
    /\ \E i \in Ids : writes[1][i].status = "LOADING"
                        /\ slides[i].status \in {"SUCCESS", "ERROR"}
    /\ timers = {[id |-> timerRef, snap |-> slides, lastModified |-> 2]}

====
